---- MODULE Spec2Model ----
(***************************************************************************)
(* The live frame pipeline of backend/app.py: the process-wide capture     *)
(* session current_stream guarded by stream_lock, the start and stop       *)
(* request handlers, and the generate_frames loop that serves one viewer   *)
(* connection.  Every handler is cut at the points where another thread    *)
(* can observe or change shared state: the lock acquisition, the calls on  *)
(* the capture handle, and the generator's yield.                          *)
(***************************************************************************)
EXTENDS Integers, Sequences, FiniteSets, TLC

\* ---------------------------------------------------------------- bounds
MaxHandles == 2      \* captures cv2.VideoCapture(...) opens successfully in a run
MaxReleases == 2     \* release() calls on one capture after which no start is issued
MaxFrames == 2       \* frames the captures deliver before every read fails

\* ------------------------------------------------------------- processes
Starters == {"s1"}           \* threads serving /api/stream/start
Stoppers == {"p1"}           \* threads serving /api/stream/stop
Ctl == Starters \cup Stoppers
Viewers == {"v1", "v2"}      \* connections to /api/stream/video
Free == "free"               \* stream_lock is not held

Urls == {"rtsp://a", "rtsp://b"}
NoUrl == "None"              \* current_stream['url'] = None
NoHandle == 0                \* current_stream['capture'] = None
Handles == 1..MaxHandles

VARIABLES
    current_stream,  \* [url, capture, active]: the module-level session dict
    stream_lock,     \* owner of the threading.Lock, or Free
    hstate,          \* per capture object: "unused" | "open" | "released"
    relCount,        \* per capture object: number of release() calls on it
    framesRead,      \* frames read() calls have delivered so far, over all captures
    nextHandle,      \* identity of the next capture object to open
    cpc,             \* per control thread: position in start_stream / stop_stream
    curl,            \* per control thread: local rtsp_url
    ccap,            \* per control thread: local capture
    pre,             \* per control thread: the shared state when it took the lock
    resp,            \* the response returned by the step just taken: [op, status, changed]
    vpc,             \* per viewer: position in generate_frames
    vh,              \* per viewer: the handle its read() call is on
    vframe,          \* per viewer: local frame, [id, draws]; id counts the session's reads
    emitted,         \* per viewer: ids of the frames of the chunks yielded to it
    vexit,           \* per viewer: how its loop ended
    stopped,         \* per viewer: a stop completed while its loop was in flight
    clean            \* per viewer: connected to a started session, no control request since

ctlVars == <<cpc, curl, ccap, pre>>
sessVars == <<current_stream, hstate, relCount, nextHandle>>
viewVars == <<vpc, vh, vframe, emitted, vexit>>
histVars == <<stopped, clean>>
vars == <<current_stream, stream_lock, hstate, relCount, framesRead, nextHandle,
          cpc, curl, ccap, pre, resp, vpc, vh, vframe, emitted,
          vexit, stopped, clean>>

\* current_stream = {'url': None, 'capture': None, 'active': False}
EmptyStream == [url |-> NoUrl, capture |-> NoHandle, active |-> FALSE]

NoFrame == [id |-> 0, draws |-> <<>>]
NoResp == [op |-> "none", status |-> 0, changed |-> FALSE]
NoSnapshot == [stream |-> EmptyStream,
               hstate |-> [h \in Handles |-> "unused"],
               relCount |-> [h \in Handles |-> 0]]
Snapshot == [stream |-> current_stream, hstate |-> hstate, relCount |-> relCount]

Init ==
    /\ current_stream = EmptyStream
    /\ stream_lock = Free
    /\ hstate = [h \in Handles |-> "unused"]
    /\ relCount = [h \in Handles |-> 0]
    /\ framesRead = 0
    /\ nextHandle = 1
    /\ cpc = [c \in Ctl |-> "idle"]
    /\ curl = [c \in Ctl |-> NoUrl]
    /\ ccap = [c \in Ctl |-> NoHandle]
    /\ pre = [c \in Ctl |-> NoSnapshot]
    /\ resp = NoResp
    /\ vpc = [v \in Viewers |-> "idle"]
    /\ vh = [v \in Viewers |-> NoHandle]
    /\ vframe = [v \in Viewers |-> NoFrame]
    /\ emitted = [v \in Viewers |-> <<>>]
    /\ vexit = [v \in Viewers |-> "none"]
    /\ stopped = [v \in Viewers |-> FALSE]
    /\ clean = [v \in Viewers |-> FALSE]

\* ------------------------------------------------------- capture handle
\* capture.release(): the handle is closed; calling it again is counted.
Release(h) ==
    /\ hstate' = [hstate EXCEPT ![h] = "released"]
    /\ relCount' = [relCount EXCEPT ![h] = @ + 1]

\* `if current_stream['capture']: current_stream['capture'].release()`
ReleaseStored ==
    IF current_stream.capture # NoHandle
    THEN Release(current_stream.capture)
    ELSE UNCHANGED <<hstate, relCount>>

\* Viewer v's loop is running: it has passed the while test and waits for the
\* lock, or it is between two iterations.  (A loop inside its with block
\* holds the lock, so no stop completes then.)
InFlight(v) ==
    \/ vpc[v] \in {"lock", "reading", "compose", "encode", "yield"}
    \/ vpc[v] = "check" /\ emitted[v] # <<>>

\* A step that returns no response to a control request.
Silent == resp' = NoResp

\* The session, or the handle it stored, is not as handler c found it when it
\* took the lock.
Changed(c) ==
    \/ current_stream # pre[c].stream
    \/ relCount # pre[c].relCount
    \/ hstate # pre[c].hstate

\* The handler returns: its locals are gone and its response is recorded.
Return(c, op, status, changed) ==
    /\ cpc' = [cpc EXCEPT ![c] = "idle"]
    /\ curl' = [curl EXCEPT ![c] = NoUrl]
    /\ ccap' = [ccap EXCEPT ![c] = NoHandle]
    /\ pre' = [pre EXCEPT ![c] = NoSnapshot]
    /\ resp' = [op |-> op, status |-> status, changed |-> changed]

\* ------------------------------------------------------- start_stream
\* Mutant of StartRejected: the url is validated only after the stored capture
\* has been released.
StartRejectedAfterRelease(c) ==
    /\ cpc[c] = "idle"
    /\ Return(c, "start", 400, FALSE)
    /\ ReleaseStored
    /\ UNCHANGED <<current_stream, nextHandle, stream_lock, framesRead, viewVars, histVars>>

\* data.get('rtsp_url') is missing or empty: 400 before the lock is taken.
StartRejected(c) ==
    /\ cpc[c] = "idle"
    /\ Return(c, "start", 400, FALSE)
    /\ UNCHANGED <<sessVars, stream_lock, framesRead, viewVars, histVars>>

\* request.get_json() gives no object: data.get raises, caught at line 284.
StartNoBody(c) ==
    /\ cpc[c] = "idle"
    /\ Return(c, "start", 500, FALSE)
    /\ UNCHANGED <<sessVars, stream_lock, framesRead, viewVars, histVars>>

\* A start request with a non-empty rtsp_url reaches `with stream_lock`.
StartRequest(c, url) ==
    /\ cpc[c] = "idle"
    /\ \A h \in Handles : relCount[h] < MaxReleases
    /\ cpc' = [cpc EXCEPT ![c] = "start_lock"]
    /\ curl' = [curl EXCEPT ![c] = url]
    /\ clean' = [v \in Viewers |-> FALSE]
    /\ Silent
    /\ UNCHANGED <<ccap, pre, stopped>>
    /\ UNCHANGED <<sessVars, stream_lock, framesRead, viewVars>>

StartAcquire(c) ==
    /\ cpc[c] = "start_lock"
    /\ stream_lock = Free
    /\ stream_lock' = c
    /\ pre' = [pre EXCEPT ![c] = Snapshot]
    /\ cpc' = [cpc EXCEPT ![c] = "start_release"]
    /\ Silent
    /\ UNCHANGED <<curl, ccap>>
    /\ UNCHANGED <<sessVars, framesRead, viewVars, histVars>>

\* Mutant of StartRelease: the new capture is opened without releasing the
\* stored one.
StartReleaseSkipped(c) ==
    /\ cpc[c] = "start_release"
    /\ Silent
    /\ cpc' = [cpc EXCEPT ![c] = "start_open"]
    /\ UNCHANGED <<curl, ccap, pre>>
    /\ UNCHANGED <<sessVars, stream_lock, framesRead, viewVars, histVars>>

\* Stop existing stream if any (lines 264-265).
StartRelease(c) ==
    /\ cpc[c] = "start_release"
    /\ ReleaseStored
    /\ cpc' = [cpc EXCEPT ![c] = "start_open"]
    /\ Silent
    /\ UNCHANGED <<curl, ccap, pre>>
    /\ UNCHANGED <<current_stream, nextHandle, stream_lock, framesRead, viewVars, histVars>>

\* capture = cv2.VideoCapture(rtsp_url) opens; isOpened() is true.
StartOpenOk(c) ==
    /\ cpc[c] = "start_open"
    /\ nextHandle <= MaxHandles
    /\ hstate' = [hstate EXCEPT ![nextHandle] = "open"]
    /\ ccap' = [ccap EXCEPT ![c] = nextHandle]
    /\ nextHandle' = nextHandle + 1
    /\ cpc' = [cpc EXCEPT ![c] = "start_store"]
    /\ Silent
    /\ UNCHANGED <<curl, pre>>
    /\ UNCHANGED <<current_stream, relCount, stream_lock, framesRead, viewVars, histVars>>

\* Mutant of StartOpenFail: the failure return leaves the locked region
\* without giving the lock back.
StartOpenFailKeepsLock(c) ==
    /\ cpc[c] = "start_open"
    /\ Return(c, "start", 400, Changed(c))
    /\ UNCHANGED <<sessVars, stream_lock, framesRead, viewVars, histVars>>

\* The source cannot be opened: isOpened() is false and 400 is returned from
\* inside the with block; the capture object that never opened is dropped.
StartOpenFail(c) ==
    /\ cpc[c] = "start_open"
    /\ stream_lock' = Free
    /\ Return(c, "start", 400, Changed(c))
    /\ UNCHANGED <<sessVars, framesRead, viewVars, histVars>>

\* Lines 275-277, the end of the with block, and the 200 response.
StartStore(c) ==
    /\ cpc[c] = "start_store"
    /\ current_stream' = [url |-> curl[c], capture |-> ccap[c], active |-> TRUE]
    /\ stream_lock' = Free
    /\ Return(c, "start", 200, TRUE)
    /\ UNCHANGED <<hstate, relCount, nextHandle, framesRead, viewVars, histVars>>

\* -------------------------------------------------------- stop_stream
StopRequest(c) ==
    /\ cpc[c] = "idle"
    /\ cpc' = [cpc EXCEPT ![c] = "stop_lock"]
    /\ clean' = [v \in Viewers |-> FALSE]
    /\ Silent
    /\ UNCHANGED <<curl, ccap, pre, stopped>>
    /\ UNCHANGED <<sessVars, stream_lock, framesRead, viewVars>>

StopAcquire(c) ==
    /\ cpc[c] = "stop_lock"
    /\ stream_lock = Free
    /\ stream_lock' = c
    /\ pre' = [pre EXCEPT ![c] = Snapshot]
    /\ cpc' = [cpc EXCEPT ![c] = "stop_release"]
    /\ Silent
    /\ UNCHANGED <<curl, ccap>>
    /\ UNCHANGED <<sessVars, framesRead, viewVars, histVars>>

\* Lines 296-297.
StopRelease(c) ==
    /\ cpc[c] = "stop_release"
    /\ ReleaseStored
    /\ cpc' = [cpc EXCEPT ![c] = "stop_clear"]
    /\ Silent
    /\ UNCHANGED <<curl, ccap, pre>>
    /\ UNCHANGED <<current_stream, nextHandle, stream_lock, framesRead, viewVars, histVars>>

\* Mutant of StopClear: `current_stream['capture'] = None` is forgotten.
StopClearKeepsCapture(c) ==
    /\ cpc[c] = "stop_clear"
    /\ current_stream' = [url |-> NoUrl, capture |-> current_stream.capture, active |-> FALSE]
    /\ stream_lock' = Free
    /\ Return(c, "stop", 200, Changed(c) \/ pre[c].stream # EmptyStream)
    /\ stopped' = [v \in Viewers |-> stopped[v] \/ InFlight(v)]
    /\ UNCHANGED clean
    /\ UNCHANGED <<hstate, relCount, nextHandle, framesRead, viewVars>>

\* Lines 298-300, the end of the with block, and the 200 response.
StopClear(c) ==
    /\ cpc[c] = "stop_clear"
    /\ current_stream' = [url |-> NoUrl, capture |-> NoHandle, active |-> FALSE]
    /\ stream_lock' = Free
    /\ Return(c, "stop", 200, Changed(c) \/ pre[c].stream # EmptyStream)
    /\ stopped' = [v \in Viewers |-> stopped[v] \/ InFlight(v)]
    /\ UNCHANGED clean
    /\ UNCHANGED <<hstate, relCount, nextHandle, framesRead, viewVars>>

\* ------------------------------------------------- overlay compositing
\* overlay.get(key, default) on an overlay document.
Get(o, key, default) == IF key \in DOMAIN o THEN o[key] ELSE default

HexDigits == <<"0", "1", "2", "3", "4", "5", "6", "7", "8", "9",
               "a", "b", "c", "d", "e", "f">>
HexUpper == <<"A", "B", "C", "D", "E", "F">>
IsHex(ch) == (\E i \in 1..16 : HexDigits[i] = ch) \/ (\E i \in 1..6 : HexUpper[i] = ch)
HexVal(ch) ==
    IF \E i \in 1..16 : HexDigits[i] = ch
    THEN (CHOOSE i \in 1..16 : HexDigits[i] = ch) - 1
    ELSE (CHOOSE i \in 1..6 : HexUpper[i] = ch) + 9
IsSpace(ch) == ch = " "
IsSign(ch) == ch \in {"+", "-"}

\* Python s[i:i+2] with 0-based i: at most two characters, fewer past the end.
Slice2(s, i) ==
    IF i + 1 > Len(s) THEN <<>>
    ELSE SubSeq(s, i + 1, IF i + 2 <= Len(s) THEN i + 2 ELSE Len(s))

\* Python int(t, 16) for a string of at most two characters: surrounding
\* whitespace is stripped and one leading sign is accepted; anything else that
\* is not a hex digit raises ValueError (ok = FALSE).
IntBase16(t) ==
    CASE Len(t) = 1 /\ IsHex(t[1]) -> [ok |-> TRUE, val |-> HexVal(t[1])]
      [] Len(t) = 2 /\ IsHex(t[1]) /\ IsHex(t[2]) ->
            [ok |-> TRUE, val |-> 16 * HexVal(t[1]) + HexVal(t[2])]
      [] Len(t) = 2 /\ IsSpace(t[1]) /\ IsHex(t[2]) -> [ok |-> TRUE, val |-> HexVal(t[2])]
      [] Len(t) = 2 /\ IsHex(t[1]) /\ IsSpace(t[2]) -> [ok |-> TRUE, val |-> HexVal(t[1])]
      [] Len(t) = 2 /\ IsSign(t[1]) /\ IsHex(t[2]) ->
            [ok |-> TRUE, val |-> IF t[1] = "-" THEN 0 - HexVal(t[2]) ELSE HexVal(t[2])]
      [] OTHER -> [ok |-> FALSE, val |-> 0]

DefaultColor == <<"#", "f", "f", "f", "f", "f", "f">>

\* Mutant of ParseColor: the slices start at 0, 2 and 4, so the '#' is taken
\* for the first digit.
ParseColorFromZero(o) ==
    LET s == Get(o, "color", DefaultColor)
        r == IntBase16(Slice2(s, 0))
        g == IntBase16(Slice2(s, 2))
        b == IntBase16(Slice2(s, 4))
    IN [ok |-> r.ok /\ g.ok /\ b.ok, val |-> <<r.val, g.val, b.val>>]

\* tuple(int(overlay.get('color', '#ffffff')[i:i+2], 16) for i in (1, 3, 5))
ParseColor(o) ==
    LET s == Get(o, "color", DefaultColor)
        r == IntBase16(Slice2(s, 1))
        g == IntBase16(Slice2(s, 3))
        b == IntBase16(Slice2(s, 5))
    IN [ok |-> r.ok /\ g.ok /\ b.ok, val |-> <<r.val, g.val, b.val>>]

\* font_scale = overlay.get('fontSize', 24) / 30, kept as the pair <<num, den>>.
FontScale(o) == <<Get(o, "fontSize", 24), 30>>

\* The cv2.putText call of lines 332-334, as the record of what it draws.
PutText(o) ==
    [content |-> o.content, org |-> <<o.x, o.y>>, font_scale |-> FontScale(o),
     color |-> ParseColor(o).val, thickness |-> 2]

\* Mutant of ApplyOverlays: the type test is missing, so a logo overlay's
\* content is drawn as text too.
RECURSIVE ApplyOverlaysAnyType(_, _)
ApplyOverlaysAnyType(draws, ovs) ==
    IF ovs = <<>> THEN [ok |-> TRUE, draws |-> draws]
    ELSE LET o == Head(ovs) IN
         IF ParseColor(o).ok
         THEN ApplyOverlaysAnyType(Append(draws, PutText(o)), Tail(ovs))
         ELSE [ok |-> FALSE, draws |-> draws]

\* The for loop of lines 326-334 over the rest `ovs` of the snapshot, with
\* `draws` already painted: ok = FALSE when an overlay's colour raises.
RECURSIVE ApplyOverlays(_, _)
ApplyOverlays(draws, ovs) ==
    IF ovs = <<>> THEN [ok |-> TRUE, draws |-> draws]
    ELSE LET o == Head(ovs) IN
         IF o.type = "text"
         THEN IF ParseColor(o).ok
              THEN ApplyOverlays(Append(draws, PutText(o)), Tail(ovs))
              ELSE [ok |-> FALSE, draws |-> draws]
         ELSE ApplyOverlays(draws, Tail(ovs))

\* Overlay documents the store may hold (validate_overlay_data requires type,
\* content, x, y, width, height; color and fontSize are optional and unchecked).
TextRed == [type |-> "text", content |-> "A", x |-> 5, y |-> 5,
            color |-> <<"#", "f", "f", "0", "0", "0", "0">>]
TextPlain == [type |-> "text", content |-> "B", x |-> 7, y |-> 9]
TextBig == [type |-> "text", content |-> "C", x |-> 1, y |-> 2, fontSize |-> 45,
            color |-> <<"#", "0", "0", "8", "0", "F", "F">>]
TextNonHex == [type |-> "text", content |-> "D", x |-> 3, y |-> 3,
               color |-> <<"#", "g", "g", "0", "0", "0", "0">>]
TextShort == [type |-> "text", content |-> "E", x |-> 4, y |-> 4,
              color |-> <<"#", "f", "f", "f">>]
Logo == [type |-> "logo", content |-> "logo.png", x |-> 0, y |-> 0]

\* What list(overlays_collection.find()) may return.
OverlayLists ==
    { <<TextRed, TextPlain>>,
      <<Logo, TextBig>>,
      <<TextNonHex, TextRed>>,
      <<TextPlain, TextShort>> }

\* ----------------------------------------------------- generate_frames
\* The generator ends (break, exception or close): the with block, if entered,
\* releases the lock.
EndLoop(v, how) ==
    /\ vpc' = [vpc EXCEPT ![v] = "closed"]
    /\ vexit' = [vexit EXCEPT ![v] = how]
    /\ vh' = [vh EXCEPT ![v] = NoHandle]
    /\ vframe' = [vframe EXCEPT ![v] = NoFrame]
    /\ stream_lock' = IF stream_lock = v THEN Free ELSE stream_lock
    /\ stopped' = [stopped EXCEPT ![v] = FALSE]
    /\ clean' = [clean EXCEPT ![v] = FALSE]

\* video_feed: the response starts iterating generate_frames().
Connect(v) ==
    /\ vpc[v] = "idle"
    /\ Silent
    /\ vpc' = [vpc EXCEPT ![v] = "check"]
    /\ clean' = [clean EXCEPT ![v] =
                    /\ current_stream.active
                    /\ current_stream.capture # NoHandle
                    /\ hstate[current_stream.capture] = "open"
                    /\ \A c \in Ctl : cpc[c] = "idle"]
    /\ UNCHANGED <<vh, vframe, emitted, vexit, stopped>>
    /\ UNCHANGED <<sessVars, stream_lock, framesRead, ctlVars>>

\* `while current_stream['active']` is true: go on to `with stream_lock`.
LoopEnter(v) ==
    /\ vpc[v] = "check"
    /\ Silent
    /\ current_stream.active
    /\ vpc' = [vpc EXCEPT ![v] = "lock"]
    /\ UNCHANGED <<vh, vframe, emitted, vexit>>
    /\ UNCHANGED <<sessVars, stream_lock, framesRead, ctlVars, histVars>>

\* Mutant of LoopExit: a loop that finds the session inactive is parked and may
\* be taken up again instead of ending.
LoopExitParks(v) ==
    /\ vpc[v] = "check"
    /\ Silent
    /\ ~current_stream.active
    /\ vpc' = [vpc EXCEPT ![v] = "idle"]
    /\ UNCHANGED <<vh, vframe, emitted, vexit>>
    /\ UNCHANGED <<sessVars, stream_lock, framesRead, ctlVars, histVars>>

\* `while current_stream['active']` is false: the generator returns.
LoopExit(v) ==
    /\ vpc[v] = "check"
    /\ Silent
    /\ ~current_stream.active
    /\ EndLoop(v, "inactive")
    /\ UNCHANGED emitted
    /\ UNCHANGED <<sessVars, framesRead, ctlVars>>

\* `with stream_lock:` is entered and current_stream['capture'] is None:
\* `break` leaves the with block at once.
NoCapture(v) ==
    /\ vpc[v] = "lock"
    /\ Silent
    /\ stream_lock = Free
    /\ current_stream.capture = NoHandle
    /\ EndLoop(v, "nocapture")
    /\ UNCHANGED emitted
    /\ UNCHANGED <<sessVars, framesRead, ctlVars>>

\* `with stream_lock:` is entered, a capture is stored, and its read() is
\* called.
ReadBegin(v) ==
    /\ vpc[v] = "lock"
    /\ Silent
    /\ stream_lock = Free
    /\ current_stream.capture # NoHandle
    /\ stream_lock' = v
    /\ vh' = [vh EXCEPT ![v] = current_stream.capture]
    /\ vpc' = [vpc EXCEPT ![v] = "reading"]
    /\ UNCHANGED <<vframe, emitted, vexit>>
    /\ UNCHANGED <<sessVars, framesRead, ctlVars, histVars>>

\* Mutant of ReadOk: the read hands out the frame the capture delivered last
\* (a shared latest-frame buffer) instead of consuming the next one.
ReadOkLatestFrame(v) ==
    /\ vpc[v] = "reading"
    /\ Silent
    /\ hstate[vh[v]] = "open"
    /\ framesRead < MaxFrames
    /\ framesRead' = framesRead + 1
    /\ vframe' = [vframe EXCEPT ![v] =
                     [id |-> IF framesRead = 0 THEN 1 ELSE framesRead, draws |-> <<>>]]
    /\ vpc' = [vpc EXCEPT ![v] = "compose"]
    /\ UNCHANGED <<vh, emitted, vexit>>
    /\ UNCHANGED <<sessVars, stream_lock, ctlVars, histVars>>

\* read() returns (True, frame): the handle is open and delivers its next frame.
ReadOk(v) ==
    /\ vpc[v] = "reading"
    /\ Silent
    /\ hstate[vh[v]] = "open"
    /\ framesRead < MaxFrames
    /\ framesRead' = framesRead + 1
    /\ vframe' = [vframe EXCEPT ![v] = [id |-> framesRead + 1, draws |-> <<>>]]
    /\ vpc' = [vpc EXCEPT ![v] = "compose"]
    /\ UNCHANGED <<vh, emitted, vexit>>
    /\ UNCHANGED <<sessVars, stream_lock, ctlVars, histVars>>

\* Mutant of ReadFail: the failed read also marks the session inactive.
ReadFailEndsSession(v) ==
    /\ vpc[v] = "reading"
    /\ Silent
    /\ EndLoop(v, "readfail")
    /\ current_stream' = [current_stream EXCEPT !.active = FALSE]
    /\ UNCHANGED <<hstate, relCount, nextHandle, emitted>>
    /\ UNCHANGED <<framesRead, ctlVars>>

\* read() returns (False, None): a released handle, or the upstream closed
\* or errored; `if not success: break`.
ReadFail(v) ==
    /\ vpc[v] = "reading"
    /\ Silent
    /\ EndLoop(v, "readfail")
    /\ UNCHANGED emitted
    /\ UNCHANGED <<sessVars, framesRead, ctlVars>>

\* Lines 325-334 run to the end: every text overlay of the snapshot is drawn.
CompositeOk(v, ovs) ==
    /\ vpc[v] = "compose"
    /\ Silent
    /\ ApplyOverlays(vframe[v].draws, ovs).ok
    /\ vframe' = [vframe EXCEPT ![v].draws = ApplyOverlays(vframe[v].draws, ovs).draws]
    /\ vpc' = [vpc EXCEPT ![v] = "encode"]
    /\ UNCHANGED <<vh, emitted, vexit>>
    /\ UNCHANGED <<sessVars, stream_lock, framesRead, ctlVars, histVars>>

\* int(..., 16) raises ValueError inside the loop: nothing catches it, the
\* generator dies and the with block releases the lock.
CompositeRaise(v, ovs) ==
    /\ vpc[v] = "compose"
    /\ Silent
    /\ ~ApplyOverlays(vframe[v].draws, ovs).ok
    /\ EndLoop(v, "exception")
    /\ UNCHANGED emitted
    /\ UNCHANGED <<sessVars, framesRead, ctlVars>>

\* Mutant of EncodeYield: the chunk is yielded twice.
EncodeYieldTwice(v) ==
    /\ vpc[v] = "encode"
    /\ Silent
    /\ emitted' = [emitted EXCEPT ![v] = Append(Append(@, vframe[v].id), vframe[v].id)]
    /\ vpc' = [vpc EXCEPT ![v] = "yield"]
    /\ UNCHANGED <<vh, vframe, vexit>>
    /\ UNCHANGED <<sessVars, stream_lock, framesRead, ctlVars, histVars>>

\* cv2.imencode returns (ret, buffer); ret is not looked at, so whatever it
\* is the chunk built from the local frame is yielded, and the generator is
\* suspended inside the with block.
EncodeYield(v) ==
    /\ vpc[v] = "encode"
    /\ Silent
    /\ emitted' = [emitted EXCEPT ![v] = Append(@, vframe[v].id)]
    /\ vpc' = [vpc EXCEPT ![v] = "yield"]
    /\ UNCHANGED <<vh, vframe, vexit>>
    /\ UNCHANGED <<sessVars, stream_lock, framesRead, ctlVars, histVars>>

\* cv2.imencode raises cv2.error: the generator dies, the lock is released.
EncodeRaise(v) ==
    /\ vpc[v] = "encode"
    /\ Silent
    /\ EndLoop(v, "exception")
    /\ UNCHANGED emitted
    /\ UNCHANGED <<sessVars, framesRead, ctlVars>>

\* The server asks for the next chunk: the generator resumes after the yield,
\* leaves the with block and goes back to the while test.
Resume(v) ==
    /\ vpc[v] = "yield"
    /\ Silent
    /\ stream_lock' = Free
    /\ vpc' = [vpc EXCEPT ![v] = "check"]
    /\ vh' = [vh EXCEPT ![v] = NoHandle]
    /\ vframe' = [vframe EXCEPT ![v] = NoFrame]
    /\ UNCHANGED <<emitted, vexit>>
    /\ UNCHANGED <<sessVars, framesRead, ctlVars, histVars>>

\* Mutant of Disconnect: the generator is dropped while suspended, without
\* leaving its with block.
DisconnectHoldsLock(v) ==
    /\ vpc[v] = "yield"
    /\ Silent
    /\ vpc' = [vpc EXCEPT ![v] = "closed"]
    /\ vexit' = [vexit EXCEPT ![v] = "disconnect"]
    /\ vh' = [vh EXCEPT ![v] = NoHandle]
    /\ vframe' = [vframe EXCEPT ![v] = NoFrame]
    /\ stopped' = [stopped EXCEPT ![v] = FALSE]
    /\ clean' = [clean EXCEPT ![v] = FALSE]
    /\ UNCHANGED <<stream_lock, emitted>>
    /\ UNCHANGED <<sessVars, framesRead, ctlVars>>

\* The viewer is gone: the server closes the generator, GeneratorExit is raised
\* at the yield and the with block releases the lock.
Disconnect(v) ==
    /\ vpc[v] = "yield"
    /\ Silent
    /\ EndLoop(v, "disconnect")
    /\ UNCHANGED emitted
    /\ UNCHANGED <<sessVars, framesRead, ctlVars>>

\* ------------------------------------------- the compositor on its own
\* Lines 325-334 applied to one freshly read frame, for every colour string
\* of '#' and six digits drawn from ProbeDigits (a digit, a lower-case and an
\* upper-case letter) as well as the snapshots of OverlayLists.
ProbeDigits == {"0", "f", "A"}
ProbeColors ==
    { <<"#", a, b, c, d, e, f>> : a \in ProbeDigits, b \in ProbeDigits, c \in ProbeDigits,
                                   d \in ProbeDigits, e \in ProbeDigits, f \in ProbeDigits }
ProbeLists ==
    { <<[type |-> "text", content |-> "P", x |-> 1, y |-> 1, color |-> col]>> : col \in ProbeColors }
        \cup OverlayLists

\* The session is active on handle 1 and viewer v1 holds the lock with the
\* first frame just read (line 320 has returned), nothing drawn on it yet.
CompositorInit ==
    /\ current_stream = [url |-> "rtsp://a", capture |-> 1, active |-> TRUE]
    /\ stream_lock = "v1"
    /\ hstate = [h \in Handles |-> IF h = 1 THEN "open" ELSE "unused"]
    /\ relCount = [h \in Handles |-> 0]
    /\ framesRead = 1
    /\ nextHandle = 2
    /\ cpc = [c \in Ctl |-> "idle"]
    /\ curl = [c \in Ctl |-> NoUrl]
    /\ ccap = [c \in Ctl |-> NoHandle]
    /\ pre = [c \in Ctl |-> NoSnapshot]
    /\ resp = NoResp
    /\ vpc = [v \in Viewers |-> IF v = "v1" THEN "compose" ELSE "idle"]
    /\ vh = [v \in Viewers |-> IF v = "v1" THEN 1 ELSE NoHandle]
    /\ vframe = [v \in Viewers |-> IF v = "v1" THEN [id |-> 1, draws |-> <<>>] ELSE NoFrame]
    /\ emitted = [v \in Viewers |-> <<>>]
    /\ vexit = [v \in Viewers |-> "none"]
    /\ stopped = [v \in Viewers |-> FALSE]
    /\ clean = [v \in Viewers |-> v = "v1"]

CompositorNext ==
    \/ \E v \in Viewers, ovs \in ProbeLists : CompositeOk(v, ovs)
    \/ \E v \in Viewers, ovs \in ProbeLists : CompositeRaise(v, ovs)

CompositorSpec == CompositorInit /\ [][CompositorNext]_vars

\* ================================================================ claims
\* Positions of a control handler inside its `with stream_lock` block.
LockedRegion == {"start_release", "start_open", "start_store", "stop_release", "stop_clear"}
OpenHandles == {h \in Handles : hstate[h] = "open"}
StoredOpen ==
    /\ current_stream.capture # NoHandle
    /\ hstate[current_stream.capture] = "open"

\* C1: a start whose source cannot be opened returns a failure and leaves the
\* session as the request found it: url, stored handle, that handle's
\* open/released status and the active flag are what they were when the
\* handler took the lock.
C1_FailedStartLeavesSession ==
    [][\A c \in Starters : StartOpenFail(c) =>
          /\ resp'.status = 400
          /\ current_stream' = pre[c].stream
          /\ pre[c].stream.capture # NoHandle =>
                hstate'[pre[c].stream.capture] = pre[c].hstate[pre[c].stream.capture]]_vars

\* C2: whenever no start or stop is inside its locked region, the session
\* stores an open capture handle if and only if active is true.
C2_HandleIffActive ==
    (\A c \in Ctl : cpc[c] \notin LockedRegion) => (StoredOpen <=> current_stream.active)

\* C3: at most one capture handle is open at any time, and an open handle is
\* the one the session stores (or the one a start has just opened and is about
\* to store): the stored handle is released before the new one is opened and
\* no handle stays open after it has stopped being the session's handle.
C3_AtMostOneOpen ==
    /\ Cardinality(OpenHandles) <= 1
    /\ \A h \in OpenHandles :
          \/ h = current_stream.capture
          \/ \E c \in Starters : cpc[c] = "start_store" /\ ccap[c] = h

\* C3 witness: a second start has replaced the first one's handle.
C3_Witness ==
    /\ hstate[1] = "released"
    /\ hstate[2] = "open"
    /\ current_stream.capture = 2
    /\ \A c \in Ctl : cpc[c] = "idle"

\* C4: a frame read is never in progress on a released handle: no read starts
\* on a handle that was released, and no handle is released during a read.
C4_NoReadOnReleased ==
    \A v \in Viewers : vpc[v] = "reading" => hstate[vh[v]] = "open"

\* C5: once a stop has completed, a viewer loop that was in flight at that
\* moment gets no further frame (so its next loop test or read ends it),
\* whatever follows the stop.
C5_StoppedLoopsReadNoMore ==
    \A v \in Viewers : stopped[v] => vpc[v] \notin {"compose", "encode", "yield"}

\* C6: stop returns success and leaves url cleared, handle absent and active
\* false; a stop that finds the session already stopped changes no state and
\* releases no handle.
C6_StopIdempotent ==
    [][\A c \in Stoppers : StopClear(c) =>
          /\ resp'.op = "stop" /\ resp'.status = 200
          /\ current_stream' = EmptyStream
          /\ pre[c].stream = EmptyStream =>
                /\ current_stream' = pre[c].stream
                /\ hstate' = pre[c].hstate
                /\ relCount' = pre[c].relCount]_vars

\* C6 witness: a stop that changed nothing has just returned 200.
C6_Witness ==
    /\ resp = [op |-> "stop", status |-> 200, changed |-> FALSE]
    /\ current_stream = EmptyStream

\* C7: a start on a reachable source ends with active true, the new handle
\* stored and the url recorded; a viewer loop begun afterwards that was
\* delivered a frame, with no stop or restart intervening and no disconnect,
\* does not end without having emitted a chunk.
C7_StartThenChunk ==
    [][/\ \A c \in Starters : StartStore(c) =>
             /\ current_stream' = [url |-> curl[c], capture |-> ccap[c], active |-> TRUE]
             /\ hstate'[ccap[c]] = "open"
       /\ \A v \in Viewers :
             (/\ clean[v]
              /\ vframe[v].id # 0
              /\ vpc[v] # "closed" /\ vpc'[v] = "closed"
              /\ vexit'[v] # "disconnect") => emitted'[v] # <<>>]_vars

\* C8: the chunks emitted to a viewer are built from distinct frames, in the
\* order the session's reads delivered them; the chunk just yielded is the one
\* built from the frame just read.
C8_ChunksInReadOrder ==
    \A v \in Viewers :
        /\ \A i \in 1..Len(emitted[v]) : emitted[v][i] \in 1..framesRead
        /\ \A i, j \in 1..Len(emitted[v]) : i < j => emitted[v][i] < emitted[v][j]
        /\ vpc[v] = "yield" => emitted[v][Len(emitted[v])] = vframe[v].id

\* C8 witness: one viewer has been sent two chunks.
C8_Witness == \E v \in Viewers : Len(emitted[v]) = 2

\* C9: when a viewer disconnects its loop ends, the session's url, handle and
\* active flag are unchanged, no handle is released, the lock it held while
\* suspended is free again, and the other viewers' loops are untouched.
C9_DisconnectIsLocal ==
    [][\A v \in Viewers : Disconnect(v) =>
          /\ vpc'[v] = "closed"
          /\ current_stream' = current_stream
          /\ hstate' = hstate /\ relCount' = relCount
          /\ stream_lock' = Free
          /\ \A w \in Viewers \ {v} :
                vpc'[w] = vpc[w] /\ emitted'[w] = emitted[w]]_vars

\* C9 witness: after one viewer disconnected, the other has read a frame and
\* yielded its chunk on the still active session.
C9_Witness ==
    /\ vexit["v1"] = "disconnect"
    /\ vpc["v2"] = "yield"
    /\ current_stream.active /\ StoredOpen

\* A text overlay whose colour the compositor cannot decode.
Malformed(o) == o.type = "text" /\ ~ParseColor(o).ok
Drawable(o) == o.type = "text" /\ ParseColor(o).ok
\* The draws of the overlays of a snapshot that are not malformed, in order.
DrawsOfWellFormed(ovs) ==
    LET keep == SelectSeq(ovs, Drawable)
    IN [i \in 1..Len(keep) |-> PutText(keep[i])]

\* C10: when the snapshot holds a text overlay with a malformed colour, only
\* that overlay is skipped: the others are still drawn and the loop goes on
\* to encode and emit the frame.
C10_MalformedColorSkipped ==
    [][\A v \in Viewers, ovs \in OverlayLists :
          (/\ \E i \in 1..Len(ovs) : Malformed(ovs[i])
           /\ CompositeOk(v, ovs) \/ CompositeRaise(v, ovs)) =>
              /\ vpc'[v] = "encode"
              /\ vframe'[v].draws = DrawsOfWellFormed(ovs)]_vars

\* C11: when a frame read fails, that viewer's loop ends without emitting a
\* chunk for that read and without raising an error; the lock is free again
\* and the session's url, handle and active flag, and every handle's status,
\* are unchanged.
C11_FailedReadEndsLoop ==
    [][\A v \in Viewers :
          (vpc[v] = "reading" /\ vpc'[v] # "reading" /\ vframe'[v].id = 0) =>
              /\ vpc'[v] = "closed"
              /\ vexit'[v] = "readfail"
              /\ emitted' = emitted
              /\ stream_lock' = Free
              /\ current_stream' = current_stream
              /\ hstate' = hstate /\ relCount' = relCount]_vars

\* C11 witness: a read on the open stored handle failed (the upstream ended):
\* the loop is over, the session is still active and the lock is free.
C11_Witness ==
    /\ vexit["v1"] = "readfail"
    /\ vpc["v1"] = "closed"
    /\ current_stream.active /\ StoredOpen
    /\ stream_lock = Free

\* C12: when encoding the composited frame fails, the frame is dropped (no
\* chunk is emitted for it) and the viewer loop goes on to its next loop test
\* and frame read.
C12_EncodeFailureDropsFrame ==
    [][\A v \in Viewers : EncodeRaise(v) =>
          /\ emitted'[v] = emitted[v]
          /\ vpc'[v] = "check"]_vars

\* C13: a viewer connection goes on to stream only if the session is active
\* when the connection looks at it (the loop test, the code's only look at the
\* session for a new connection); a loop that found the session inactive is
\* closed by that test, and a closed loop stays closed and emits no chunk
\* afterwards, whatever happens to the session.
C13_ClosedIsTerminal ==
    [][\A v \in Viewers :
          /\ vpc[v] = "closed" => (vpc'[v] = "closed" /\ emitted'[v] = emitted[v])
          /\ (vpc[v] = "check" /\ vpc'[v] = "lock") => current_stream.active
          /\ (vpc[v] = "check" /\ ~current_stream.active /\ vpc'[v] # "check") =>
                 (vpc'[v] = "closed" /\ emitted'[v] = emitted[v])]_vars

\* C13 witness: v1 found the session inactive and closed without a chunk; the
\* session was started afterwards and v2 streams from it; v1 is still closed.
C13_Witness ==
    /\ vpc["v1"] = "closed" /\ vexit["v1"] = "inactive" /\ emitted["v1"] = <<>>
    /\ current_stream.active /\ StoredOpen
    /\ vpc["v2"] = "yield"

\* The text overlays of a snapshot, in list order.
IsText(o) == o.type = "text"
TextDraws(ovs) ==
    LET texts == SelectSeq(ovs, IsText)
    IN [i \in 1..Len(texts) |-> PutText(texts[i])]

\* C14: for each frame that is composited, one overlay snapshot is applied to
\* the freshly read frame: every text overlay of the snapshot is drawn exactly
\* once, in list order (a later overlay is painted over an earlier one), and a
\* logo overlay causes no drawing.
C14_TextDrawnInOrder ==
    [][\A v \in Viewers, ovs \in OverlayLists : CompositeOk(v, ovs) =>
          /\ vframe[v].draws = <<>>
          /\ vframe'[v].id = vframe[v].id
          /\ vframe'[v].draws = TextDraws(ovs)]_vars

\* C14 witness: a frame carries the two text overlays of its snapshot, the
\* first in the list drawn first, and is about to be encoded.
C14_Witness ==
    \E v \in Viewers :
        /\ vpc[v] = "encode"
        /\ vframe[v].draws = <<PutText(TextRed), PutText(TextPlain)>>

\* The value of one hex digit, and the channel two digits of a colour string
\* stand for (i is the position of the first of them after the '#').
DigitValue(ch) ==
    CASE ch = "0" -> 0 [] ch = "1" -> 1 [] ch = "2" -> 2 [] ch = "3" -> 3
      [] ch = "4" -> 4 [] ch = "5" -> 5 [] ch = "6" -> 6 [] ch = "7" -> 7
      [] ch = "8" -> 8 [] ch = "9" -> 9
      [] ch \in {"a", "A"} -> 10 [] ch \in {"b", "B"} -> 11 [] ch \in {"c", "C"} -> 12
      [] ch \in {"d", "D"} -> 13 [] ch \in {"e", "E"} -> 14 [] ch \in {"f", "F"} -> 15
      [] OTHER -> 0 - 1
Channel(s, i) == 16 * DigitValue(s[1 + i]) + DigitValue(s[2 + i])
WellFormedColor(s) ==
    /\ Len(s) = 7
    /\ s[1] = "#"
    /\ \A k \in 2..7 : DigitValue(s[k]) >= 0
ColorGiven(o) ==
    IF "color" \in DOMAIN o THEN o.color ELSE <<"#", "f", "f", "f", "f", "f", "f">>

C16_LockOnlyForRead ==
    \A v \in Viewers : stream_lock = v => vpc[v] = "reading"

\* C17: a start request whose rtsp_url is missing or empty is answered 400
\* without taking the lock: no handle is released and url, handle and active
\* flag stay as they were, whatever state the session was in before.
C17_RejectedStartTouchesNothing ==
    [][\A c \in Starters :
          (cpc[c] = "idle" /\ resp'.op = "start" /\ resp'.status = 400) =>
              /\ cpc'[c] = "idle"
              /\ current_stream' = current_stream
              /\ hstate' = hstate /\ relCount' = relCount
              /\ stream_lock' = stream_lock]_vars

\* C17 witness: a start was rejected on an active session while a viewer loop
\* held the lock; the session still stores its open handle.
C17_Witness ==
    /\ resp = [op |-> "start", status |-> 400, changed |-> FALSE]
    /\ current_stream.active /\ StoredOpen
    /\ stream_lock \in Viewers

\* The frames a viewer has been sent.
Sent(v) == {emitted[v][i] : i \in 1..Len(emitted[v])}

C19_ReleasedAtMostOnce ==
    \A h \in Handles : relCount[h] <= 1

\* A thread is blocked on `with stream_lock`.
WaitingCtl(c) == cpc[c] \in {"start_lock", "stop_lock"}
WaitingViewer(v) == vpc[v] = "lock"
\* The lock is held only by a thread that is inside its with block.
HeldInsideRegion ==
    /\ \A c \in Ctl : stream_lock = c <=> cpc[c] \in LockedRegion
    /\ \A v \in Viewers : stream_lock = v <=> vpc[v] \in {"reading", "compose", "encode", "yield"}

Next ==
    \/ \E c \in Starters : StartRejected(c)
    \/ \E c \in Starters : StartNoBody(c)
    \/ \E c \in Starters, url \in Urls : StartRequest(c, url)
    \/ \E c \in Starters : StartAcquire(c)
    \/ \E c \in Starters : StartRelease(c)
    \/ \E c \in Starters : StartOpenOk(c)
    \/ \E c \in Starters : StartOpenFail(c)
    \/ \E c \in Starters : StartStore(c)
    \/ \E c \in Stoppers : StopRequest(c)
    \/ \E c \in Stoppers : StopAcquire(c)
    \/ \E c \in Stoppers : StopRelease(c)
    \/ \E c \in Stoppers : StopClear(c)
    \/ \E v \in Viewers : Connect(v)
    \/ \E v \in Viewers : LoopEnter(v)
    \/ \E v \in Viewers : LoopExit(v)
    \/ \E v \in Viewers : NoCapture(v)
    \/ \E v \in Viewers : ReadBegin(v)
    \/ \E v \in Viewers : ReadOk(v)
    \/ \E v \in Viewers : ReadFail(v)
    \/ \E v \in Viewers, ovs \in OverlayLists : CompositeOk(v, ovs)
    \/ \E v \in Viewers, ovs \in OverlayLists : CompositeRaise(v, ovs)
    \/ \E v \in Viewers : EncodeYield(v)
    \/ \E v \in Viewers : EncodeRaise(v)
    \/ \E v \in Viewers : Resume(v)
    \/ \E v \in Viewers : Disconnect(v)

Spec == Init /\ [][Next]_vars

\* A step of the thread that holds stream_lock, up to the end of its with
\* block: a handler runs to its return, a viewer loop to its yield or its end,
\* and the consumer of a suspended generator asks for the next chunk or closes
\* it.
InsideStep ==
    \/ \E c \in Starters : StartRelease(c) \/ StartOpenOk(c) \/ StartOpenFail(c) \/ StartStore(c)
    \/ \E c \in Stoppers : StopRelease(c) \/ StopClear(c)
    \/ \E v \in Viewers : ReadOk(v) \/ ReadFail(v) \/ EncodeYield(v) \/ EncodeRaise(v)
    \/ \E v \in Viewers, ovs \in OverlayLists : CompositeOk(v, ovs) \/ CompositeRaise(v, ovs)
    \/ \E v \in Viewers : Resume(v) \/ Disconnect(v)

\* The holder of the lock keeps running, and a thread blocked on stream_lock
\* gets the lock if it is free again and again (no waiter is passed over
\* forever).
Fairness ==
    /\ WF_vars(InsideStep)
    /\ \A c \in Starters : SF_vars(StartAcquire(c))
    /\ \A c \in Stoppers : SF_vars(StopAcquire(c))
    /\ \A v \in Viewers : SF_vars(NoCapture(v) \/ ReadBegin(v))

FairSpec == Spec /\ Fairness
====
